---- MODULE Spec2Model ----
(***************************************************************************)
(* The IRQ-driven request dispatcher of the IDE driver                     *)
(* (src/kernel/disk/ide.rs): Disk::request, Disk::on_poll,                 *)
(* Disk::next_request and Disk::next_dma_request, together with the        *)
(* bus-master registers, the task file and the drive they program.         *)
(*                                                                         *)
(* Two execution contexts run the driver code: the caller thread ("thr")   *)
(* that executes request(), and the interrupt handler ("isr") that         *)
(* executes on_poll().  Each step of a context is one stretch of code      *)
(* between two points where no Intex guard is held; the interrupt handler  *)
(* runs to completion once started.  The drive and the bus-master          *)
(* controller are a third party that finishes a command at any time.       *)
(***************************************************************************)
EXTENDS Integers, Sequences, FiniteSets, TLC

(***************************************************************************)
(* Bounds of the model.                                                    *)
(***************************************************************************)
\* Requests submitted in one behaviour of Spec.
MaxRequests == 3
\* Requests submitted in one behaviour of SpecChannel (two Disk objects).
MaxChannelRequests == 2
\* Requests submitted in one behaviour of FairSpec.
MaxFairRequests == 2
\* Reads that find BSY set in one wait for BSY to clear.
MaxBsyReads == 2

(***************************************************************************)
(* Program constants.                                                      *)
(***************************************************************************)
CMD_DIR == 8
CMD_ACT == 1
STS_INT == 4
STS_ERR == 2
PRD_EOT == 32768
ATA_CMD_READ_DMA_EXT == 37
ATA_CMD_WRITE_DMA_EXT == 53
ATA_CMD_READ_PIO_EXT == 36
ATA_CMD_WRITE_PIO_EXT == 52
ATA_CMD_CACHE_FLUSH_EXT == 234
ATA_CMD_IDENTIFY == 236
ATA_SR_BSY == 128
ATA_SR_DRDY == 64
ATA_SR_DF == 32
ATA_SR_DRQ == 8
ATA_SR_ERR == 1
ATA_REG_SECCOUNT0 == 2
ATA_REG_LBA0 == 3
ATA_REG_LBA1 == 4
ATA_REG_LBA2 == 5
ATA_REG_HDDEVSEL == 6
ATA_REG_COMMAND == 7
ATA_REG_SECCOUNT1 == 8
ATA_REG_LBA3 == 9
ATA_REG_LBA4 == 10
ATA_REG_LBA5 == 11
ATA_REG_STATUS == 7
ATA_REG_ALTSTATUS == 12
\* The status identify() takes for a floating bus.
FloatingBus == 255
\* Device-select values written by identify().
IdSelMaster == 160
IdSelSlave == 176
\* Data words per sector and per IDENTIFY block.
SectorWords == 256
\* Device-select values written by next_dma_request.
SelMaster == 64
SelSlave == 80
\* Bytes per sector, bytes per full PRD entry, sectors per full chunk and
\* the number of PRD entries of the table, as next_request uses them.
SectorSize == 512
PrdBytes == 65536
ChunkSectors == 128
PrdtEntries == 8192

U8 == 256
U16 == 65536
\* A u32 physical address is the pair of its 64 KiB page (addr / 65536, one
\* of AddrPages pages) and its offset in the page (addr % 65536): adding
\* i * 65536 to it and truncating to u32 adds i to the page modulo AddrPages.
AddrPages == 65536

(***************************************************************************)
(* Option<T> is a sequence of length at most one.                          *)
(***************************************************************************)
None == <<>>
Some(x) == <<x>>
IsSome(o) == o /= <<>>
Get(o) == o[1]

\* v & bit == bit, for a single-bit mask.
HasBit(v, bit) == (v \div bit) % 2 = 1
\* ((v >> (8 * k)) & 0xFF) as u8.  Every sector count and LBA of the model is
\* below 2^31, so its bytes 4 and 5 are 0.
Byte(v, k) == IF k > 3 THEN 0 ELSE (v \div (2 ^ (8 * k))) % U8

Addr(page, off) == [page |-> page, off |-> off]
NullAddr == Addr(0, 0)
\* (mem + i * 65536) as u32
AddPages(mem, i) == Addr((mem.page + i) % AddrPages, mem.off)

\* The Disk objects of one channel: same command/control base, same
\* bus-master ports.
Disks == {"master", "slave"}
Ctx == {"thr", "isr"}

\* prdt.mem.ptr: each Disk object allocates a PRDT of its own, 64 KiB aligned.
PrdtPtr(d) == IF d = "master" THEN 16 * PrdBytes ELSE 17 * PrdBytes

VARIABLES
    request,        \* [Disks -> Option<Request>], the current Request
    requests,       \* [Disks -> Seq(Request)], the queue
    dma_request,    \* [Disks -> Option<DMARequest>], the current chunk
    dma_requests,   \* [Disks -> Seq(DMARequest)], the chunk queue
    prdt_alloc,     \* [Disks -> BOOLEAN], self.prdt is Some
    prdt_mem,       \* [Disks -> Seq(Prd)], the PRD entries stored so far
    complete,       \* Seq(BOOLEAN), the completion flag of request id i
    bm_cmd,         \* bus-master command register
    bm_sts,         \* bus-master status register (INT and ERR bits)
    prdt_reg,       \* bus-master PRDT-address register
    tf_writes,      \* the task-file writes of the latest command, in order
    drive,          \* Option: the ATA command the drive is executing (BSY)
    pc,             \* [Ctx -> position]
    self,           \* [Ctx -> Disks], the Disk a context is running on
    \* history variables
    owner,          \* Seq(Disks): the Disk request id i was submitted to
    started,        \* Seq(Nat): how often request id i became current
    issued,         \* Seq(Nat): ATA commands issued while id i was current
    built,          \* [Disks -> Nat]: PRD entries stored by the latest build
    pending,        \* commands finished whose INT on_poll has not yet seen
    failed,         \* Seq(BOOLEAN): a chunk of request id i ended with ERR
    rearmed,        \* BOOLEAN: the bus-master command register was written
                    \* with ACT set since on_poll() last wrote the status
    polled,         \* the latest on_poll() call that was watched: a bit
                    \* that every call flips, and the INT and ACT it found
    \* the programmed-I/O calls (read, write, identify and their ide_poll)
    pio             \* the call in progress or returned: arguments, position,
                    \* locals, and the port accesses it has made

vars == <<request, requests, dma_request, dma_requests, prdt_alloc, prdt_mem,
          complete, bm_cmd, bm_sts, prdt_reg, tf_writes, drive, pc, self,
          owner, started, issued, built, pending, failed, rearmed, polled,
          pio>>

\* What the dispatcher and its interrupt handler work on.
dma == <<request, requests, dma_request, dma_requests, prdt_alloc, prdt_mem,
         complete, bm_cmd, bm_sts, prdt_reg, tf_writes, drive, pc, self,
         owner, started, issued, built, pending, failed, rearmed, polled>>

disp == <<request, requests, dma_request, dma_requests, prdt_mem, built>>
hw == <<bm_cmd, bm_sts, prdt_reg, tf_writes, drive>>
hist == <<owner, started, issued, pending, failed>>

(***************************************************************************)
(* Inputs.                                                                 *)
(***************************************************************************)
ReqBlocks == {0, 8}
ReqLengths == {0, SectorSize, PrdBytes + SectorSize}
ReqMems == {NullAddr, Addr(4, 0)}

Requests(blocks, lengths, mems, reads) ==
    [block : blocks, length : lengths, mem : mems, read : reads]

\* The Request as request() queues it: id is its place in submission order.
NewRequest(id, r) ==
    [id |-> id, extent |-> [block |-> r.block, length |-> r.length],
     mem |-> r.mem, read |-> r.read]

\* pop_back in place of pop_front.
FrontFromBack(q) == IF q = <<>> THEN None ELSE Some(q[Len(q)])
\* front() in place of pop_front(): the element stays queued.
RestKeepsFront(q) == q

\* VecDeque::pop_front: the element returned and the queue left.
Front(q) == IF q = <<>> THEN None ELSE Some(Head(q))
Rest(q) == IF q = <<>> THEN <<>> ELSE Tail(q)

\* request() that advances whether or not a Request is current.
IsNoneAlways(o) == TRUE

\* Option::is_none
IsNone(o) == o = None

\* on_poll() that does not test STS_INT.
IntSeenAlways(sts) == TRUE

\* sts & STS_INT == STS_INT and cmd & CMD_ACT == CMD_ACT in on_poll
IntSeen(sts) == HasBit(sts, STS_INT)

\* on_poll() that does not test CMD_ACT.
ActSetAlways(cmd) == TRUE

ActSet(cmd) == HasBit(cmd, CMD_ACT)

\* Extent::empty
Empty(extent) == extent.block = 0 \/ extent.length = 0


(***************************************************************************)
(* next_request, lines 536-590: the PRD entries and the chunks built for   *)
(* one Request.  The code's loop                                           *)
(*     while size >= 65536 && i < 8192 { store; push_back; size -= 65536;  *)
(*                                       i += 1 }                          *)
(* runs with size = size0 - 65536 * i at the head of iteration i, so its   *)
(* condition, once false, stays false: the loop runs FullEntries(size0)    *)
(* times, the first i at which the condition fails.                        *)
(***************************************************************************)
\* let sectors = (req.extent.length + 511) / 512;
Sectors(length) == (length + (SectorSize - 1)) \div SectorSize

\* while size >= 65536 && i < 8192
LoopCond(size, i) == size >= PrdBytes /\ i < PrdtEntries

FullEntries(size0) ==
    CHOOSE k \in 0..PrdtEntries :
        /\ ~LoopCond(size0 - PrdBytes * k, k)
        /\ (k = 0 \/ LoopCond(size0 - PrdBytes * (k - 1), k - 1))

\* A full entry that never carries end-of-table.
FullEotNever(size) == 0

\* if size == 65536 { eot = PRD_EOT } else { eot = 0 }
FullEot(size) == IF size = PrdBytes THEN PRD_EOT ELSE 0

\* if size > 0 && i < 8192
TailCond(size, i) == size > 0 /\ i < PrdtEntries

\* Arming without the size == 0 test.
AcceptedAnySize(size, i) == i > 0

\* if i > 0 { if size == 0 { prdt_set = true } }
Accepted(size, i) == i > 0 /\ size = 0

\* The i-th full entry and chunk (i counts from 0, as in the code).
FullPrd(req, size, i) ==
    [addr |-> AddPages(req.mem, i), size |-> 0, eot |-> FullEot(size)]

TailPrd(req, size, i) ==
    [addr |-> AddPages(req.mem, i), size |-> size % U16, eot |-> PRD_EOT]

\* Every full chunk at the Request's first block.
FullChunkSameLba(req, i) ==
    [lba |-> req.block, sectors |-> ChunkSectors, read |-> req.read]

FullChunk(req, i) ==
    [lba |-> req.block + i * ChunkSectors, sectors |-> ChunkSectors, read |-> req.read]

TailChunk(req, size, i) ==
    [lba |-> req.block + i * ChunkSectors,
     sectors |-> (size \div SectorSize) % U16,
     read |-> req.read]

\* The locals of next_request after line 579: the entries stored, the
\* chunks pushed, the remaining size and the entry count i.
Build(req) ==
    LET size0 == Sectors(req.length) * SectorSize
        full == FullEntries(size0)
        rest == size0 - PrdBytes * full
        tail == TailCond(rest, full)
        n == IF tail THEN full + 1 ELSE full
    IN  [prds |-> [j \in 1..n |->
                     IF j <= full
                     THEN FullPrd(req, size0 - PrdBytes * (j - 1), j - 1)
                     ELSE TailPrd(req, rest, full)],
         chunks |-> [j \in 1..n |->
                     IF j <= full THEN FullChunk(req, j - 1)
                     ELSE TailChunk(req, rest, full)],
         size |-> IF tail THEN 0 ELSE rest,
         i |-> n]

\* prdt.mem.store(i, ..) for i = 0 .. Len(prds) - 1: entries beyond those
\* stored keep what an earlier Request left there.
Store(mem, prds) ==
    [j \in 1..(IF Len(prds) > Len(mem) THEN Len(prds) ELSE Len(mem)) |->
        IF j <= Len(prds) THEN prds[j] ELSE mem[j]]

(***************************************************************************)
(* next_dma_request, lines 626-646: the task-file writes of one chunk, in  *)
(* the order the code makes them.                                          *)
(***************************************************************************)
DevSel(d) == IF d = "master" THEN SelMaster ELSE SelSlave

\* READ_DMA_EXT whatever the direction of the chunk.
DmaCommandAlwaysRead(chunk) == ATA_CMD_READ_DMA_EXT

DmaCommand(chunk) ==
    IF chunk.read THEN ATA_CMD_READ_DMA_EXT ELSE ATA_CMD_WRITE_DMA_EXT

TaskFile(d, chunk) ==
    << <<ATA_REG_HDDEVSEL, DevSel(d)>>,
       <<ATA_REG_SECCOUNT1, Byte(chunk.sectors, 1)>>,
       <<ATA_REG_LBA3, Byte(chunk.lba, 3)>>,
       <<ATA_REG_LBA4, Byte(chunk.lba, 4)>>,
       <<ATA_REG_LBA5, Byte(chunk.lba, 5)>>,
       <<ATA_REG_SECCOUNT0, Byte(chunk.sectors, 0)>>,
       <<ATA_REG_LBA0, Byte(chunk.lba, 0)>>,
       <<ATA_REG_LBA1, Byte(chunk.lba, 1)>>,
       <<ATA_REG_LBA2, Byte(chunk.lba, 2)>>,
       <<ATA_REG_COMMAND, DmaCommand(chunk)>> >>

(***************************************************************************)
(* The programmed-I/O calls.  pio holds the arguments of the call (fn, d,  *)
(* lba, count, buf), its position pc, the loop variable sector, and what   *)
(* it has done: words, the data words moved; tf, its ide_write calls in    *)
(* order; cmds, the commands it wrote, each with the LBA and sector count  *)
(* the task file held; probe, the status identify() read first; ready, the *)
(* status that ended the BSY wait, until the task file is programmed;      *)
(* ret, the value returned.  check, reads, spins, seen, state, err and     *)
(* back are those of the ide_poll call in progress: its argument, the      *)
(* registers it has read, the BSY reads of its loop, the status that ended *)
(* the loop, the status it classified, its result and where it returns to. *)
(***************************************************************************)
PioIdle ==
    [fn |-> "none", d |-> "master", lba |-> 0, count |-> 0, buf |-> 0,
     pc |-> "idle", sector |-> 0, words |-> 0, tf |-> <<>>, cmds |-> <<>>,
     probe |-> None, ready |-> None, ret |-> None,
     check |-> FALSE, reads |-> <<>>, spins |-> 0, seen |-> None,
     state |-> None, err |-> 0, back |-> "none"]

(***************************************************************************)
(* The state after construction (Disk::primary_master and the like): no    *)
(* current Request, empty queues; the PRDT may or may not have been        *)
(* allocated (Prdt::new returns None when Memory::new_align fails).        *)
(***************************************************************************)
Init ==
    /\ request = [d \in Disks |-> None]
    /\ requests = [d \in Disks |-> <<>>]
    /\ dma_request = [d \in Disks |-> None]
    /\ dma_requests = [d \in Disks |-> <<>>]
    /\ prdt_alloc \in {[d \in Disks |-> b] : b \in BOOLEAN}
    /\ prdt_mem = [d \in Disks |-> <<>>]
    /\ complete = <<>>
    /\ bm_cmd = 0
    /\ bm_sts = 0
    /\ prdt_reg = 0
    /\ tf_writes = <<>>
    /\ drive = None
    /\ pc = [c \in Ctx |-> "idle"]
    /\ self = [c \in Ctx |-> "master"]
    /\ owner = <<>>
    /\ started = <<>>
    /\ issued = <<>>
    /\ built = [d \in Disks |-> 0]
    /\ pending = <<>>
    /\ failed = <<>>
    /\ rearmed = FALSE
    /\ polled = [tick |-> FALSE, int |-> FALSE, act |-> FALSE]
    /\ pio = PioIdle

\* The interrupt handler runs to completion: the caller thread does not run
\* while it is active.
CanRun(c) == c = "isr" \/ pc["isr"] = "idle"

\* An Intex guard disables interrupts while it is held: the thread holds the
\* dma_request guard for the whole block of lines 621-649, the BSY wait
\* included.
IntsDisabled == pc["thr"] = "ndr_issue"


(***************************************************************************)
(* Disk::request, line 497: self.requests.lock().push_back(new_request).   *)
(* The Request gets the next id; its completion flag starts false.         *)
(***************************************************************************)
Request(d, r, max) ==
    /\ pc["thr"] = "idle"
    /\ CanRun("thr")
    /\ Len(complete) < max
    /\ requests' = [requests EXCEPT
                      ![d] = Append(@, NewRequest(Len(complete) + 1, r))]
    /\ complete' = Append(complete, FALSE)
    /\ owner' = Append(owner, d)
    /\ started' = Append(started, 0)
    /\ issued' = Append(issued, 0)
    /\ failed' = Append(failed, FALSE)
    /\ pc' = [pc EXCEPT !["thr"] = "req_check"]
    /\ self' = [self EXCEPT !["thr"] = d]
    /\ UNCHANGED <<request, dma_request, dma_requests, prdt_alloc, prdt_mem,
                   built, pending>>
    /\ UNCHANGED hw
    /\ UNCHANGED <<rearmed, polled, pio>>

\* Disk::request, lines 499-501: if self.request.lock().is_none() { next_request() }
RequestCheck ==
    /\ pc["thr"] = "req_check"
    /\ CanRun("thr")
    /\ pc' = [pc EXCEPT !["thr"] = IF IsNone(request[self["thr"]])
                                   THEN "nr_pop" ELSE "idle"]
    /\ UNCHANGED <<self, prdt_alloc, complete>>
    /\ UNCHANGED disp
    /\ UNCHANGED hw
    /\ UNCHANGED hist
    /\ UNCHANGED <<rearmed, polled, pio>>

(***************************************************************************)
(* Disk::on_poll, lines 504-514.  Writing the status value back clears the *)
(* INT and ERR bits it has set (write-1-to-clear).                         *)
(***************************************************************************)
OnPollBody(d) ==
    /\ pc["isr"] = "idle"
    /\ ~IntsDisabled
    /\ IF IntSeen(bm_sts)
       THEN /\ bm_sts' = 0
            /\ pending' = <<>>
            /\ rearmed' = FALSE
            /\ IF ActSet(bm_cmd)
               THEN /\ pc' = [pc EXCEPT !["isr"] = "ndr_pop"]
                    /\ self' = [self EXCEPT !["isr"] = d]
               ELSE UNCHANGED <<pc, self>>
       ELSE UNCHANGED <<bm_sts, pending, rearmed, pc, self>>
    /\ UNCHANGED <<prdt_alloc, complete, bm_cmd, prdt_reg, tf_writes, drive,
                   owner, started, issued, failed>>
    /\ UNCHANGED disp
    /\ UNCHANGED pio

OnPoll(d) == OnPollBody(d) /\ UNCHANGED polled

\* The same call, watched: polled records that it was made and what it
\* found in the two registers it reads.
OnPollWatched(d) ==
    /\ OnPollBody(d)
    /\ polled' = [tick |-> ~polled.tick,
                  int |-> HasBit(bm_sts, STS_INT),
                  act |-> HasBit(bm_cmd, CMD_ACT)]

\* A next_request that leaves the command register as it is.
DisarmCmdKeeps(cmd) == cmd

\* next_request, line 521: self.cmd.write(CMD_DIR)
DisarmCmd(cmd) == CMD_DIR

\* A next_request that never clears the PRDT address.
DisarmRegNever(alloc, reg) == reg

\* next_request, lines 522-524: if let Some(ref mut prdt) = self.prdt {
\* prdt.reg.write(0) }
DisarmReg(alloc, reg) == IF alloc THEN 0 ELSE reg

\* Arming with DIR set whatever the direction.
ArmCmdAlwaysDir(read) == CMD_ACT + CMD_DIR

\* next_request, lines 595-601: the command written to arm the bus master.
ArmCmd(read) == IF read THEN CMD_ACT + CMD_DIR ELSE CMD_ACT

(***************************************************************************)
(* Disk::next_request, lines 517-531: disarm, complete the current         *)
(* Request, pop the next one.                                              *)
(***************************************************************************)
NextRequestPop(c) ==
    LET d == self[c]
        next == Front(requests[d])
    IN  /\ pc[c] = "nr_pop"
        /\ CanRun(c)
        /\ bm_cmd' = DisarmCmd(bm_cmd)
        /\ prdt_reg' = DisarmReg(prdt_alloc[d], prdt_reg)
        /\ complete' = IF IsSome(request[d])
                       THEN [complete EXCEPT ![Get(request[d]).id] = TRUE]
                       ELSE complete
        /\ request' = [request EXCEPT ![d] = next]
        /\ requests' = [requests EXCEPT ![d] = Rest(@)]
        /\ started' = IF IsSome(next)
                      THEN [started EXCEPT ![Get(next).id] = @ + 1]
                      ELSE started
        /\ pc' = [pc EXCEPT ![c] = "nr_build"]
        /\ UNCHANGED <<dma_request, dma_requests, prdt_alloc, prdt_mem, built,
                       bm_sts, tf_writes, drive, self, owner, issued, pending,
                       failed>>
        /\ UNCHANGED <<rearmed, polled, pio>>

(***************************************************************************)
(* Disk::next_request, lines 533-611: build the PRDT and the chunk queue   *)
(* of the current Request, load the PRDT address and arm the bus master.   *)
(***************************************************************************)
NextRequestBuild(c) ==
    LET d == self[c]
        req == Get(request[d])
        builds == IsSome(request[d]) /\ req.mem /= NullAddr /\ prdt_alloc[d]
        b == Build([block |-> req.extent.block, length |-> req.extent.length,
                    mem |-> req.mem, read |-> req.read])
        prdt_set == builds /\ Accepted(b.size, b.i)
    IN  /\ pc[c] = "nr_build"
        /\ CanRun(c)
        /\ IF builds
           THEN /\ prdt_mem' = [prdt_mem EXCEPT ![d] = Store(@, b.prds)]
                /\ dma_requests' = [dma_requests EXCEPT ![d] = @ \o b.chunks]
                /\ built' = [built EXCEPT ![d] = b.i]
           ELSE UNCHANGED <<prdt_mem, dma_requests, built>>
        /\ prdt_reg' = IF prdt_set THEN PrdtPtr(d) ELSE prdt_reg
        /\ bm_cmd' = IF prdt_set THEN ArmCmd(req.read) ELSE bm_cmd
        /\ rearmed' = (prdt_set \/ rearmed)
        /\ pc' = [pc EXCEPT ![c] = IF prdt_set THEN "ndr_pop" ELSE "idle"]
        /\ UNCHANGED <<request, requests, dma_request, prdt_alloc, complete,
                       bm_sts, tf_writes, drive, self>>
        /\ UNCHANGED hist
        /\ UNCHANGED <<polled, pio>>

\* A next_dma_request that goes on to next_request after every pop.
AfterPopNextRequest(next) == "nr_pop"

\* next_dma_request, lines 621 and 650-652: if let Some(ref dma_req) = .. {
\* issue it; return }, otherwise self.next_request().
AfterPop(next) == IF IsSome(next) THEN "ndr_issue" ELSE "nr_pop"

(***************************************************************************)
(* Disk::next_dma_request, lines 614-619 and 652: pop the next chunk; with *)
(* none left, go on to next_request.                                       *)
(***************************************************************************)
NextDmaPop(c) ==
    LET d == self[c]
        next == Front(dma_requests[d])
    IN  /\ pc[c] = "ndr_pop"
        /\ CanRun(c)
        /\ dma_request' = [dma_request EXCEPT ![d] = next]
        /\ dma_requests' = [dma_requests EXCEPT ![d] = Rest(@)]
        /\ pc' = [pc EXCEPT ![c] = AfterPop(next)]
        /\ UNCHANGED <<request, requests, prdt_alloc, prdt_mem, built, complete,
                       self>>
        /\ UNCHANGED hw
        /\ UNCHANGED hist
        /\ UNCHANGED <<rearmed, polled, pio>>

(***************************************************************************)
(* Disk::next_dma_request, lines 621-649: wait until BSY is clear, program *)
(* the task file and write the command byte.  The drive is BSY from the    *)
(* command write until it finishes the command.                            *)
(***************************************************************************)
NextDmaIssue(c) ==
    LET d == self[c]
        chunk == Get(dma_request[d])
    IN  /\ pc[c] = "ndr_issue"
        /\ CanRun(c)
        /\ drive = None
        /\ tf_writes' = TaskFile(d, chunk)
        /\ drive' = Some([disk |-> d,
                          rid |-> IF IsSome(request[d]) THEN Get(request[d]).id ELSE 0,
                          lba |-> chunk.lba,
                          sectors |-> chunk.sectors,
                          command |-> DmaCommand(chunk),
                          armed |-> bm_cmd,
                          table |-> prdt_reg])
        /\ issued' = IF IsSome(request[d])
                     THEN [issued EXCEPT ![Get(request[d]).id] = @ + 1]
                     ELSE issued
        /\ pc' = [pc EXCEPT ![c] = "idle"]
        /\ UNCHANGED <<prdt_alloc, complete, bm_cmd, bm_sts, prdt_reg, self,
                       owner, started, pending, failed>>
        /\ UNCHANGED disp
        /\ UNCHANGED <<rearmed, polled, pio>>

(***************************************************************************)
(* The drive and the bus-master controller: the command in flight          *)
(* finishes, BSY clears and the controller raises INT, with ERR when the   *)
(* transfer failed.  INT is raised for nothing else.                       *)
(***************************************************************************)
HwComplete(err) ==
    /\ IsSome(drive)
    /\ drive' = None
    /\ pending' = Append(pending, Get(drive))
    /\ bm_sts' = IF err \/ HasBit(bm_sts, STS_ERR) THEN STS_INT + STS_ERR ELSE STS_INT
    /\ failed' = IF err /\ Get(drive).rid > 0
                 THEN [failed EXCEPT ![Get(drive).rid] = TRUE]
                 ELSE failed
    /\ UNCHANGED <<prdt_alloc, complete, bm_cmd, prdt_reg, tf_writes, pc, self,
                   owner, started, issued>>
    /\ UNCHANGED disp
    /\ UNCHANGED <<rearmed, polled, pio>>

(***************************************************************************)
(* Programmed I/O: ide_poll, identify, read and write, lines 286-493.      *)
(* Every read of the status register is a step of its own, with a value    *)
(* the drive chooses.                                                      *)
(***************************************************************************)
StatusValues ==
    {0,
     ATA_SR_DRDY,
     ATA_SR_DRDY + ATA_SR_DRQ,
     ATA_SR_DRDY + ATA_SR_ERR,
     ATA_SR_DRDY + ATA_SR_DF,
     ATA_SR_DRDY + ATA_SR_DF + ATA_SR_ERR,
     ATA_SR_BSY + ATA_SR_DRDY,
     FloatingBus}

\* ide_read, lines 262-274: the port a register number is read from, as
\* the base it is relative to and the offset from it.
IdePort(reg) ==
    IF reg < 8 THEN <<"base", reg>>
    ELSE IF reg < 12 THEN <<"base", reg - 6>>
    ELSE IF reg < 14 THEN <<"ctrl", reg - 10>>
    ELSE <<"none", 0>>

\* status & ATA_SR_BSY == ATA_SR_BSY
Busy(v) == HasBit(v, ATA_SR_BSY)

\* An ide_poll that tests DF before ERR.
ClassifyDfFirst(state) ==
    IF HasBit(state, ATA_SR_DF) THEN 1
    ELSE IF HasBit(state, ATA_SR_ERR) THEN 2
    ELSE IF ~HasBit(state, ATA_SR_DRQ) THEN 3
    ELSE 0

\* ide_poll, lines 297-306: the result for the status read at line 296.
Classify(state) ==
    IF HasBit(state, ATA_SR_ERR) THEN 2
    ELSE IF HasBit(state, ATA_SR_DF) THEN 1
    ELSE IF ~HasBit(state, ATA_SR_DRQ) THEN 3
    ELSE 0

\* An identify() that goes on whatever the first status is.
FloatingNever(v) == FALSE

\* identify, line 314: self.ide_read(ATA_REG_STATUS) == 0xFF
Floating(v) == v = FloatingBus

\* The low bytes written before the high bytes.
PioTaskFileLowFirst(d, lba, count, command) ==
    << <<ATA_REG_HDDEVSEL, DevSel(d)>>,
       <<ATA_REG_SECCOUNT0, Byte(count, 0)>>,
       <<ATA_REG_LBA0, Byte(lba, 0)>>,
       <<ATA_REG_LBA1, Byte(lba, 1)>>,
       <<ATA_REG_LBA2, Byte(lba, 2)>>,
       <<ATA_REG_SECCOUNT1, Byte(count, 1)>>,
       <<ATA_REG_LBA3, Byte(lba, 3)>>,
       <<ATA_REG_LBA4, Byte(lba, 4)>>,
       <<ATA_REG_LBA5, Byte(lba, 5)>>,
       <<ATA_REG_COMMAND, command>> >>

\* read and write, lines 417-432 and 458-474: the ide_write calls that
\* program one command, in the order the code makes them.
PioTaskFile(d, lba, count, command) ==
    << <<ATA_REG_HDDEVSEL, DevSel(d)>>,
       <<ATA_REG_SECCOUNT1, Byte(count, 1)>>,
       <<ATA_REG_LBA3, Byte(lba, 3)>>,
       <<ATA_REG_LBA4, Byte(lba, 4)>>,
       <<ATA_REG_LBA5, Byte(lba, 5)>>,
       <<ATA_REG_SECCOUNT0, Byte(count, 0)>>,
       <<ATA_REG_LBA0, Byte(lba, 0)>>,
       <<ATA_REG_LBA1, Byte(lba, 1)>>,
       <<ATA_REG_LBA2, Byte(lba, 2)>>,
       <<ATA_REG_COMMAND, command>> >>

\* identify, lines 324-335.
IdTaskFile(d) ==
    << <<ATA_REG_HDDEVSEL, IF d = "master" THEN IdSelMaster ELSE IdSelSlave>>,
       <<ATA_REG_SECCOUNT0, 0>>,
       <<ATA_REG_LBA0, 0>>,
       <<ATA_REG_LBA1, 0>>,
       <<ATA_REG_LBA2, 0>>,
       <<ATA_REG_COMMAND, ATA_CMD_IDENTIFY>> >>

\* The locals of ide_poll are gone once its caller has its result.
PollOver(p) ==
    [p EXCEPT !.check = FALSE, !.reads = <<>>, !.spins = 0, !.seen = None,
              !.state = None, !.err = 0, !.back = "none"]

\* return v
Return(p, v) == [PollOver(p) EXCEPT !.pc = "idle", !.ret = Some(v)]

\* self.ide_poll(check_error), to come back at position back.
EnterPoll(p, check_error, back) ==
    [PollOver(p) EXCEPT !.pc = "poll_settle", !.check = check_error,
                        !.back = back]

\* for sector in 0..count as usize { let err = self.ide_poll(true); .. } 0
LoopHead(p) ==
    IF p.sector < p.count THEN EnterPoll(p, TRUE, "rw_data") ELSE Return(p, 0)

\* A call of read, write or identify: lines 411-412, 452-453 and 313.  A
\* null buffer skips the whole body of read and write.
PioCall(call) ==
    LET p == [PioIdle EXCEPT !.fn = call.fn, !.d = call.d, !.lba = call.lba,
                             !.count = call.count, !.buf = call.buf]
    IN  /\ pio.pc = "idle"
        /\ pio' = IF call.fn = "identify" THEN [p EXCEPT !.pc = "id_probe"]
                  ELSE IF call.buf > 0 THEN [p EXCEPT !.pc = "rw_bsy"]
                  ELSE Return(p, 0)
        /\ UNCHANGED dma

\* while self.ide_read(ATA_REG_STATUS) & ATA_SR_BSY == ATA_SR_BSY {}
\* at lines 413, 454 and 320.
BsyWait ==
    /\ pio.pc \in {"rw_bsy", "id_bsy"}
    /\ \E v \in StatusValues :
          /\ Busy(v) => pio.spins < MaxBsyReads
          /\ pio' = IF Busy(v)
                    THEN [pio EXCEPT !.spins = @ + 1]
                    ELSE [pio EXCEPT !.spins = 0, !.ready = Some(v),
                                     !.pc = IF pio.pc = "rw_bsy"
                                            THEN "rw_program" ELSE "id_program"]
    /\ UNCHANGED dma

\* read and write, lines 417-434 and 458-476: program the task file, write
\* the command, enter the sector loop.
RwProgram ==
    LET command == IF pio.fn = "read" THEN ATA_CMD_READ_PIO_EXT
                   ELSE ATA_CMD_WRITE_PIO_EXT
    IN  /\ pio.pc = "rw_program"
        /\ pio' = LoopHead(
                     [pio EXCEPT
                        !.tf = PioTaskFile(pio.d, pio.lba, pio.count, command),
                        !.cmds = << [command |-> command, lba |-> pio.lba,
                                     sectors |-> pio.count] >>,
                        !.ready = None,
                        !.sector = 0])
        /\ UNCHANGED dma

\* ide_poll, lines 287-290: four reads of the alternate status.
PollSettle ==
    /\ pio.pc = "poll_settle"
    /\ pio' = [pio EXCEPT
                 !.reads = <<ATA_REG_ALTSTATUS, ATA_REG_ALTSTATUS,
                             ATA_REG_ALTSTATUS, ATA_REG_ALTSTATUS>>,
                 !.pc = "poll_spin"]
    /\ UNCHANGED dma

\* ide_poll, line 292: one read of the loop; the loop ends on the first
\* status with BSY clear, and without check_error ide_poll returns 0.
PollSpin ==
    /\ pio.pc = "poll_spin"
    /\ \E v \in StatusValues :
          /\ Busy(v) => pio.spins < MaxBsyReads
          /\ pio' = IF Busy(v)
                    THEN [pio EXCEPT !.spins = @ + 1,
                                     !.reads = Append(@, ATA_REG_STATUS)]
                    ELSE [pio EXCEPT !.seen = Some(v),
                                     !.reads = Append(@, ATA_REG_STATUS),
                                     !.err = 0,
                                     !.pc = IF pio.check THEN "poll_check"
                                            ELSE "poll_ret"]
    /\ UNCHANGED dma

\* ide_poll, lines 295-306: read the status again and classify it.
PollCheck ==
    /\ pio.pc = "poll_check"
    /\ \E v \in StatusValues :
          pio' = [pio EXCEPT !.state = Some(v),
                             !.reads = Append(@, ATA_REG_STATUS),
                             !.err = Classify(v),
                             !.pc = "poll_ret"]
    /\ UNCHANGED dma

\* A sector loop that ignores the result of ide_poll.
PollFailedNever(err) == FALSE

\* if err > 0 { return err; } at lines 436 and 478 (344 in identify)
PollFailed(err) == err > 0

\* read and write, lines 435-443 and 477-488: back from ide_poll(true),
\* return its error or move the 256 words of the sector; write() then
\* writes CACHE_FLUSH_EXT and polls without the error check.
RwData ==
    LET moved == [PollOver(pio) EXCEPT !.words = @ + SectorWords]
    IN  /\ pio.pc = "poll_ret"
        /\ pio.back = "rw_data"
        /\ pio' = IF PollFailed(pio.err) THEN Return(pio, pio.err)
                  ELSE IF pio.fn = "read"
                  THEN LoopHead([moved EXCEPT !.sector = @ + 1])
                  ELSE EnterPoll(
                         [moved EXCEPT
                            !.tf = Append(@, <<ATA_REG_COMMAND,
                                               ATA_CMD_CACHE_FLUSH_EXT>>),
                            !.cmds = Append(@,
                                       [command |-> ATA_CMD_CACHE_FLUSH_EXT,
                                        lba |-> pio.lba,
                                        sectors |-> pio.count])],
                         FALSE, "rw_flush")
        /\ UNCHANGED dma

\* write, lines 489-490: back from ide_poll(false), on to the next sector.
RwFlushed ==
    /\ pio.pc = "poll_ret"
    /\ pio.back = "rw_flush"
    /\ pio' = LoopHead([PollOver(pio) EXCEPT !.sector = @ + 1])
    /\ UNCHANGED dma

\* identify, lines 314-318: the first status read.
IdProbe ==
    /\ pio.pc = "id_probe"
    /\ \E v \in StatusValues :
          pio' = IF Floating(v)
                  THEN Return([pio EXCEPT !.probe = Some(v)], FALSE)
                  ELSE [pio EXCEPT !.probe = Some(v), !.pc = "id_bsy"]
    /\ UNCHANGED dma

\* identify, lines 324-335.
IdProgram ==
    /\ pio.pc = "id_program"
    /\ pio' = [pio EXCEPT !.tf = IdTaskFile(pio.d),
                          !.cmds = << [command |-> ATA_CMD_IDENTIFY,
                                       lba |-> 0, sectors |-> 0] >>,
                          !.ready = None,
                          !.pc = "id_status"]
    /\ UNCHANGED dma

\* identify, lines 337-344: a status of 0 after the command means no drive.
IdStatus ==
    /\ pio.pc = "id_status"
    /\ \E v \in StatusValues :
          pio' = IF v = 0 THEN Return(pio, FALSE)
                  ELSE EnterPoll(pio, TRUE, "id_data")
    /\ UNCHANGED dma

\* identify, lines 344-406: back from ide_poll(true); on success read the
\* 256 words of the IDENTIFY block.
IdData ==
    /\ pio.pc = "poll_ret"
    /\ pio.back = "id_data"
    /\ pio' = IF PollFailed(pio.err) THEN Return(pio, FALSE)
              ELSE Return([pio EXCEPT !.words = @ + SectorWords], TRUE)
    /\ UNCHANGED dma

\* The calls made: both functions on both Disks, with and without a buffer,
\* of 0, 1 and 2 sectors, and a transfer of 300 sectors.
PioInputs ==
    [fn : {"read", "write"}, d : Disks, lba : {100, 16777216 + 100},
     count : {0, 1, 2}, buf : {0, 1048576}]
      \cup [fn : {"read", "write"}, d : {"master"}, lba : {100},
            count : {300}, buf : {1048576}]
      \cup [fn : {"identify"}, d : Disks, lba : {0}, count : {0}, buf : {0}]

NextPio ==
    \/ \E call \in PioInputs : PioCall(call)
    \/ BsyWait
    \/ RwProgram
    \/ PollSettle
    \/ PollSpin
    \/ PollCheck
    \/ RwData
    \/ RwFlushed
    \/ IdProbe
    \/ IdProgram
    \/ IdStatus
    \/ IdData

InitPio == Init /\ prdt_alloc["master"]

SpecPio == InitPio /\ [][NextPio]_vars

(***************************************************************************)
(* Both ways of programming the task file on one channel.  A caller uses   *)
(* the Disks either through read() and write() or through request(): the   *)
(* programmed-I/O calls are made only while no Request was ever submitted, *)
(* and Requests only while no programmed-I/O call was ever made.           *)
(***************************************************************************)
TaskFileCalls ==
    [fn : {"read", "write"}, d : Disks, lba : {100, 16777216 + 100},
     count : {1, 2}, buf : {1048576}]

TaskFileRequests ==
    Requests({8}, {SectorSize, PrdBytes + SectorSize}, {Addr(4, 0)}, BOOLEAN)

NextTaskFile ==
    \/ complete = <<>> /\ \E call \in TaskFileCalls : PioCall(call)
    \/ BsyWait
    \/ RwProgram
    \/ PollSettle
    \/ PollSpin
    \/ PollCheck
    \/ RwData
    \/ RwFlushed
    \/ pio.fn = "none" /\ \E d \in Disks : \E r \in TaskFileRequests :
                             Request(d, r, MaxChannelRequests)
    \/ RequestCheck
    \/ \E d \in Disks : OnPoll(d)
    \/ \E c \in Ctx : NextRequestPop(c)
    \/ \E c \in Ctx : NextRequestBuild(c)
    \/ \E c \in Ctx : NextDmaPop(c)
    \/ \E c \in Ctx : NextDmaIssue(c)
    \/ \E err \in BOOLEAN : HwComplete(err)

SpecTaskFile == InitPio /\ [][NextTaskFile]_vars

(***************************************************************************)
(* One Disk object (the master) on its channel.                            *)
(***************************************************************************)
ReqInputs == Requests({8}, ReqLengths, ReqMems, BOOLEAN)

Next ==
    \/ \E r \in ReqInputs : Request("master", r, MaxRequests)
    \/ RequestCheck
    \/ OnPoll("master")
    \/ \E c \in Ctx : NextRequestPop(c)
    \/ \E c \in Ctx : NextRequestBuild(c)
    \/ \E c \in Ctx : NextDmaPop(c)
    \/ \E c \in Ctx : NextDmaIssue(c)
    \/ \E err \in BOOLEAN : HwComplete(err)

Spec == Init /\ [][Next]_vars

(***************************************************************************)
(* The same Disk under the scheduling the driver relies on: a context that *)
(* can take a step takes it, the drive finishes every command it was given *)
(* and raises INT, and on_poll() is called for a raised INT.  Callers need *)
(* not submit.                                                             *)
(***************************************************************************)
DriverStep ==
    \/ RequestCheck
    \/ OnPoll("master")
    \/ \E c \in Ctx : NextRequestPop(c)
    \/ \E c \in Ctx : NextRequestBuild(c)
    \/ \E c \in Ctx : NextDmaPop(c)
    \/ \E c \in Ctx : NextDmaIssue(c)

FairNext ==
    \/ \E r \in ReqInputs : Request("master", r, MaxFairRequests)
    \/ DriverStep
    \/ \E err \in BOOLEAN : HwComplete(err)

\* The same steps without the scheduling assumptions.
SpecPair == Init /\ [][FairNext]_vars

FairSpec ==
    /\ Init
    /\ [][FairNext]_vars
    /\ WF_vars(DriverStep)
    /\ WF_vars(\E err \in BOOLEAN : HwComplete(err))

(***************************************************************************)
(* The master and the slave of one channel, as Disk::primary_master and    *)
(* Disk::primary_slave construct them: two Disk objects, each with its own *)
(* queues and its own PRDT, on the same bus-master and task-file ports and *)
(* the same IRQ line.                                                      *)
(***************************************************************************)
ChannelInputs ==
    Requests({8}, {SectorSize, PrdBytes + SectorSize}, {Addr(4, 0)}, BOOLEAN)

NextChannel ==
    \/ \E d \in Disks : \E r \in ChannelInputs : Request(d, r, MaxChannelRequests)
    \/ RequestCheck
    \/ \E d \in Disks : OnPoll(d)
    \/ \E c \in Ctx : NextRequestPop(c)
    \/ \E c \in Ctx : NextRequestBuild(c)
    \/ \E c \in Ctx : NextDmaPop(c)
    \/ \E c \in Ctx : NextDmaIssue(c)
    \/ \E err \in BOOLEAN : HwComplete(err)

SpecChannel == Init /\ [][NextChannel]_vars

(***************************************************************************)
(* The same channel with every on_poll() call watched.                     *)
(***************************************************************************)
PolledInputs ==
    Requests({8}, {SectorSize, PrdBytes + SectorSize}, {Addr(4, 0)}, {TRUE})

NextPolled ==
    \/ \E d \in Disks : \E r \in PolledInputs : Request(d, r, MaxChannelRequests)
    \/ RequestCheck
    \/ \E d \in Disks : OnPollWatched(d)
    \/ \E c \in Ctx : NextRequestPop(c)
    \/ \E c \in Ctx : NextRequestBuild(c)
    \/ \E c \in Ctx : NextDmaPop(c)
    \/ \E c \in Ctx : NextDmaIssue(c)
    \/ \E err \in BOOLEAN : HwComplete(err)

SpecPolled == Init /\ [][NextPolled]_vars

(***************************************************************************)
(* next_request applied to single Requests at the edges of what the PRDT   *)
(* can describe: a fresh Disk in the middle of its first request() call,   *)
(* the Request pushed and the is_none() check still to come.  The drive    *)
(* never finishes a command here: the states are those of the first        *)
(* next_request() and of the first command.                                *)
(***************************************************************************)
PrdtCapacity == PrdtEntries * PrdBytes

PrdtSmallLengths ==
    {0, 1, SectorSize, PrdBytes - 1, PrdBytes, PrdBytes + 1,
     3 * PrdBytes, 3 * PrdBytes + SectorSize}

PrdtLargeLengths ==
    {PrdtCapacity - SectorSize, PrdtCapacity - (SectorSize - 1), PrdtCapacity,
     PrdtCapacity + 1, PrdtCapacity + PrdBytes}

PrdtMems == {NullAddr, Addr(4, 0), Addr(4, SectorSize), Addr(AddrPages - 1, 0)}

PrdtInputs ==
    Requests(ReqBlocks, PrdtSmallLengths, PrdtMems, BOOLEAN)
        \cup Requests({8}, PrdtLargeLengths, {Addr(4, 0)}, {TRUE})

InitOne(inputs) ==
    /\ request = [d \in Disks |-> None]
    /\ \E r \in inputs :
          requests = [d \in Disks |->
                        IF d = "master" THEN <<NewRequest(1, r)>> ELSE <<>>]
    /\ dma_request = [d \in Disks |-> None]
    /\ dma_requests = [d \in Disks |-> <<>>]
    /\ prdt_alloc \in {[d \in Disks |-> b] : b \in BOOLEAN}
    /\ prdt_mem = [d \in Disks |-> <<>>]
    /\ complete = <<FALSE>>
    /\ bm_cmd = 0
    /\ bm_sts = 0
    /\ prdt_reg = 0
    /\ tf_writes = <<>>
    /\ drive = None
    /\ pc = [c \in Ctx |-> IF c = "thr" THEN "req_check" ELSE "idle"]
    /\ self = [c \in Ctx |-> "master"]
    /\ owner = <<"master">>
    /\ started = <<0>>
    /\ issued = <<0>>
    /\ built = [d \in Disks |-> 0]
    /\ pending = <<>>
    /\ failed = <<FALSE>>
    /\ rearmed = FALSE
    /\ polled = [tick |-> FALSE, int |-> FALSE, act |-> FALSE]
    /\ pio = PioIdle

InitPrdt == InitOne(PrdtInputs)

NextPrdt ==
    \/ RequestCheck
    \/ OnPoll("master")
    \/ \E c \in Ctx : NextRequestPop(c)
    \/ \E c \in Ctx : NextRequestBuild(c)
    \/ \E c \in Ctx : NextDmaPop(c)
    \/ \E c \in Ctx : NextDmaIssue(c)

SpecPrdt == InitPrdt /\ [][NextPrdt]_vars

(***************************************************************************)
(* One Request of up to four chunks carried through all its commands: the  *)
(* same fresh Disk, with a drive that finishes what it is given.           *)
(***************************************************************************)
ChunkInputs == Requests(ReqBlocks, PrdtSmallLengths, ReqMems, BOOLEAN)

InitChunks == InitOne(ChunkInputs)

NextChunks ==
    \/ RequestCheck
    \/ OnPoll("master")
    \/ \E c \in Ctx : NextRequestPop(c)
    \/ \E c \in Ctx : NextRequestBuild(c)
    \/ \E c \in Ctx : NextDmaPop(c)
    \/ \E c \in Ctx : NextDmaIssue(c)
    \/ \E err \in BOOLEAN : HwComplete(err)

SpecChunks == InitChunks /\ [][NextChunks]_vars


(***************************************************************************)
(* Properties.                                                             *)
(***************************************************************************)
Ids == 1..Len(complete)

\* The commands issued whose INT on_poll() has not yet observed: the one
\* the drive is executing and those finished since on_poll() last saw INT.
Outstanding == Len(pending) + (IF IsSome(drive) THEN 1 ELSE 0)

\* The bus master is armed for Disk d: its table is loaded and ACT is set.
ArmedFor(d) == prdt_reg = PrdtPtr(d) /\ HasBit(bm_cmd, CMD_ACT)

\* How often request id is in the queue of Disk d.
Queued(d, id) == Cardinality({k \in 1..Len(requests[d]) : requests[d][k].id = id})
Current(d, id) == IsSome(request[d]) /\ Get(request[d]).id = id

\* C1: with one Disk, at most one hardware transfer is in flight: no DMA
\* command is written while an earlier one is executing or has finished
\* without on_poll() having observed its INT.
AtMostOneInFlight == Outstanding <= 1

\* C1 witness: the second chunk of a Request is in flight (issued by
\* on_poll() after the first chunk's INT) while another Request waits.
SecondChunkInFlight ==
    /\ IsSome(drive)
    /\ issued[Get(drive).rid] = 2
    /\ requests["master"] /= <<>>

\* C2: master and slave serialize on the shared channel: never more than
\* one outstanding transfer on the channel registers, and the transfer in
\* flight keeps the bus master armed for its own Disk (no other Disk's
\* request or interrupt disarms or re-arms it).
ChannelSerialized ==
    /\ Len(pending) + Cardinality({k \in {1} : IsSome(drive)}) <= 1
    /\ IsSome(drive) => ArmedFor(Get(drive).disk)

\* C3: Requests of one Disk complete in submission order: a later Request
\* has no command issued, and is not complete, before every earlier one has
\* its flag set.
CompletionInOrder ==
    \A i \in Ids : \A j \in Ids :
        (i < j /\ owner[i] = owner[j]) =>
            /\ complete[j] => complete[i]
            /\ issued[j] > 0 => complete[i]
            /\ started[j] > 0 => complete[i]

\* C3 witness: three Requests were submitted, the first two are complete
\* and the third has its command in flight.
ThirdAfterFirstTwo ==
    /\ Len(complete) = 3
    /\ complete[1] /\ complete[2] /\ ~complete[3]
    /\ issued[3] > 0

\* C4: on a Disk whose PRDT was allocated, every submitted Request
\* eventually has its flag set or ends in a hardware error.
EveryRequestCompletes ==
    \A id \in 1..MaxFairRequests :
        (prdt_alloc["master"] /\ Len(complete) >= id)
            ~> (Len(complete) >= id /\ (complete[id] \/ failed[id]))

\* C5: a Request one of whose chunks ended with ERR in the bus-master
\* status is not signalled complete and has no further chunk issued.
DmaErrorFailsRequest ==
    \A id \in Ids :
        failed[id] =>
            /\ ~complete[id]
            /\ ~(IsSome(drive) /\ Get(drive).rid = id)

\* C6: every submitted Request is in exactly one place (queue, current or
\* completed), and becomes current at most once.
ExactlyOnePlace ==
    \A id \in Ids :
        /\ Queued(owner[id], id)
             + (IF Current(owner[id], id) THEN 1 ELSE 0)
             + (IF complete[id] THEN 1 ELSE 0) = 1
        /\ \A d \in Disks \ {owner[id]} : Queued(d, id) = 0 /\ ~Current(d, id)
        /\ started[id] <= 1
        /\ started[id] = 1 <=> (Current(owner[id], id) \/ complete[id])

\* C6 witness: one Request completed, one current, one queued.
OneInEachPlace ==
    /\ Len(complete) = 3
    /\ complete[1]
    /\ Current("master", 2)
    /\ Queued("master", 3) = 1

\* C7: a step of request() taken while a Request is current changes nothing
\* but the tail of the queue: the push appends the new Request, and the
\* is_none() check that finds a current Request returns.
RequestOnlyAppends ==
    [][LET d == self'["thr"]
       IN  /\ (pc["thr"] = "idle" /\ pc'["thr"] = "req_check" /\ IsSome(request[d]))
               => /\ Len(requests'[d]) = Len(requests[d]) + 1
                  /\ SubSeq(requests'[d], 1, Len(requests[d])) = requests[d]
                  /\ \A e \in Disks \ {d} : requests'[e] = requests[e]
                  /\ UNCHANGED <<request, dma_request, dma_requests, prdt_mem>>
                  /\ UNCHANGED hw
           /\ (pc["thr"] = "req_check" /\ pc'["thr"] /= "req_check"
                 /\ IsSome(request[self["thr"]]))
               => /\ pc'["thr"] = "idle"
                  /\ UNCHANGED disp
                  /\ UNCHANGED hw
                  /\ UNCHANGED complete]_vars

\* C7 witness: request() has pushed behind a current Request whose command
\* is in flight, and is about to check is_none().
PushedBehindCurrent ==
    /\ pc["thr"] = "req_check"
    /\ IsSome(request["master"])
    /\ IsSome(drive)
    /\ Len(requests["master"]) >= 1

\* The build of the current Request of the master is over.
AfterBuild == pc["thr"] \in {"ndr_pop", "ndr_issue", "idle"} /\ IsSome(request["master"])
\* A Request that reaches the size computation of next_request.
Sized(req) == req.mem /= NullAddr /\ req.extent.length > 0 /\ prdt_alloc["master"]

\* C8: a Request with a buffer and a non-zero length is armed iff its
\* rounded-up size fits in 8192 entries of 64 KiB; for a larger one the
\* PRDT address is not loaded, ACT stays clear and no command is issued.
AcceptedIffFits ==
    AfterBuild =>
        LET req == Get(request["master"])
        IN  Sized(req) =>
              IF Sectors(req.extent.length) * SectorSize <= PrdtCapacity
              THEN /\ ArmedFor("master")
                   /\ pc["thr"] = "idle" => issued[req.id] = 1 /\ IsSome(drive)
              ELSE /\ prdt_reg /= PrdtPtr("master")
                   /\ ~HasBit(bm_cmd, CMD_ACT)
                   /\ issued[req.id] = 0
                   /\ drive = None
                   /\ tf_writes = <<>>
                   /\ pc["thr"] = "idle"

\* C8 witness: a Request one byte over the capacity was refused.
TooLargeRefused ==
    /\ AfterBuild
    /\ Sized(Get(request["master"]))
    /\ Get(request["master"]).extent.length = PrdtCapacity + 1
    /\ pc["thr"] = "idle"

\* C9: a Request with a sentinel extent (block == 0 or length == 0) never
\* initiates I/O: no PRDT address loaded, ACT clear, no command issued.
SentinelNoIo ==
    \A d \in Disks :
        (IsSome(request[d]) /\ Empty(Get(request[d]).extent)) =>
            /\ ~ArmedFor(d)
            /\ issued[Get(request[d]).id] = 0

\* mem + 512 * N <= 2^32, in 64 KiB pages.
FitsBelow4G(mem, n) ==
    mem.page + ((mem.off + SectorSize * n + (PrdBytes - 1)) \div PrdBytes) <= AddrPages

\* C10: for an accepted Request of N sectors the table holds ceil(N/128)
\* entries: floor(N/128) full ones of byte count 0, a trailing one of byte
\* count (N mod 128) * 512 iff N mod 128 /= 0, entry i at mem + 65536 * i,
\* and end-of-table on the last entry written and on no other.
PrdtLayout ==
    AfterBuild =>
        LET req == Get(request["master"])
            n == Sectors(req.extent.length)
            full == n \div ChunkSectors
            rem == n % ChunkSectors
            t == prdt_mem["master"]
        IN  (Sized(req) /\ n <= PrdtEntries * ChunkSectors /\ FitsBelow4G(req.mem, n)) =>
              /\ built["master"] = (n + (ChunkSectors - 1)) \div ChunkSectors
              /\ Len(t) = built["master"]
              /\ Len(t) = IF rem = 0 THEN full ELSE full + 1
              /\ \A j \in 1..Len(t) :
                    /\ t[j].size = IF j <= full THEN 0 ELSE rem * SectorSize
                    /\ t[j].addr = Addr(req.mem.page + (j - 1), req.mem.off)
                    /\ t[j].eot = IF j = Len(t) THEN PRD_EOT ELSE 0

\* C10 witness: a Request of 3 * 128 + 1 sectors was built into four entries.
FourEntriesBuilt ==
    /\ AfterBuild
    /\ Sized(Get(request["master"]))
    /\ Get(request["master"]).extent.length = 3 * PrdBytes + SectorSize
    /\ Len(prdt_mem["master"]) = 4

\* The bytes a PRD entry describes: a byte count of 0 means 64 KiB.
PrdBytesOf(prd) == IF prd.size = 0 THEN PrdBytes ELSE prd.size

\* C11: every PRD entry written for an accepted Request describes a range
\* [addr, addr + bytes) inside one 64 KiB page, whatever buffer address the
\* dispatcher accepted.
NoBoundaryCrossing ==
    (AfterBuild /\ ArmedFor("master")) =>
        \A j \in 1..built["master"] :
            prdt_mem["master"][j].addr.off + PrdBytesOf(prdt_mem["master"][j])
                <= PrdBytes

RECURSIVE SumSectors(_)
SumSectors(q) == IF q = <<>> THEN 0 ELSE Head(q).sectors + SumSectors(Tail(q))

\* The chunks the current Request has had popped from its queue: those
\* issued and the one a context is about to issue.
Popped(id) == issued[id] + Cardinality({c \in Ctx : pc[c] = "ndr_issue"})

\* C12: for an accepted Request of N sectors the chunk queue holds one
\* chunk per PRD entry, chunk i at block + 128 * i with 128 sectors, the
\* last with N mod 128 when that is not 0; the sector counts sum to N; the
\* commands are issued one at a time, in that order, with the Request's
\* direction.
ChunksInOrder ==
    (IsSome(request["master"]) /\ ArmedFor("master")) =>
        LET req == Get(request["master"])
            n == Sectors(req.extent.length)
            cnt == (n + (ChunkSectors - 1)) \div ChunkSectors
            Expected(j) ==
                [lba |-> req.extent.block + ChunkSectors * (j - 1),
                 sectors |-> IF j < cnt \/ n % ChunkSectors = 0
                             THEN ChunkSectors ELSE n % ChunkSectors,
                 read |-> req.read]
            k == Popped(req.id)
        IN  /\ cnt = built["master"]
            /\ k <= cnt
            /\ dma_requests["master"] = [j \in 1..(cnt - k) |-> Expected(k + j)]
            /\ k = 0 => SumSectors(dma_requests["master"]) = n
            /\ Outstanding <= 1
            /\ IsSome(drive) =>
                  /\ Get(drive).rid = req.id
                  /\ Get(drive).lba = Expected(issued[req.id]).lba
                  /\ Get(drive).sectors = Expected(issued[req.id]).sectors
                  /\ Get(drive).command = DmaCommand(req)

\* C12 witness: the fourth chunk of a Request of 385 sectors, one sector at
\* block + 384, is in flight.
FourthChunkInFlight ==
    /\ IsSome(request["master"])
    /\ Get(request["master"]).extent.length = 3 * PrdBytes + SectorSize
    /\ IsSome(drive)
    /\ issued[1] = 4
    /\ Get(drive).sectors = 1
    /\ Get(drive).lba = Get(request["master"]).extent.block + 3 * ChunkSectors

\* A call of read() or write() has returned.
RwReturned == pio.fn \in {"read", "write"} /\ pio.pc = "idle"

\* C13: a PIO read() or write() called with a null buffer or a sector
\* count of zero fails: it returns a non-zero error and has written no ATA
\* command.
NullOrEmptyPioFails ==
    (RwReturned /\ (pio.buf = 0 \/ pio.count = 0)) =>
        /\ Get(pio.ret) /= 0
        /\ pio.cmds = <<>>

\* C14: a PIO transfer of more than 255 sectors is carried out as
\* successive commands of at most 255 sectors each: no READ_PIO_EXT or
\* WRITE_PIO_EXT is written with a larger sector count.
PioSplitAt255 ==
    \A k \in 1..Len(pio.cmds) :
        pio.cmds[k].command \in {ATA_CMD_READ_PIO_EXT, ATA_CMD_WRITE_PIO_EXT}
            => pio.cmds[k].sectors <= U8 - 1

\* C15: ide_poll returns only after a status read with BSY clear;
\* ide_poll(true) returns 2 for a status with ERR, 1 for DF without ERR, 3
\* for neither and DRQ clear, 0 for neither and DRQ set; ide_poll(false)
\* returns 0 whatever the status.
PollClassifies ==
    pio.pc = "poll_ret" =>
        /\ IsSome(pio.seen)
        /\ ~HasBit(Get(pio.seen), ATA_SR_BSY)
        /\ IF pio.check
           THEN /\ IsSome(pio.state)
                /\ LET st == Get(pio.state)
                       e == HasBit(st, ATA_SR_ERR)
                       f == HasBit(st, ATA_SR_DF)
                       q == HasBit(st, ATA_SR_DRQ)
                   IN  /\ e => pio.err = 2
                       /\ (f /\ ~e) => pio.err = 1
                       /\ (~e /\ ~f /\ ~q) => pio.err = 3
                       /\ (~e /\ ~f /\ q) => pio.err = 0
           ELSE pio.err = 0

\* C15 witness: ide_poll(true) is about to return 2 for a status with both
\* ERR and DF set.
PollSawErrAndFault ==
    /\ pio.pc = "poll_ret"
    /\ pio.check
    /\ pio.state = Some(ATA_SR_DRDY + ATA_SR_DF + ATA_SR_ERR)
    /\ pio.err = 2

\* C16: when the first status identify() reads is 0xFF it returns false
\* and does nothing more: no device-select, task-file or IDENTIFY write and
\* no data word read.
FloatingBusStops ==
    (pio.fn = "identify" /\ pio.probe = Some(FloatingBus)) =>
        /\ pio.pc = "idle"
        /\ pio.ret = Some(FALSE)
        /\ pio.tf = <<>>
        /\ pio.cmds = <<>>
        /\ pio.words = 0
        /\ pio.reads = <<>>

\* C16 witness: identify() on the slave has returned after reading 0xFF.
FloatingBusSeen ==
    /\ pio.fn = "identify"
    /\ pio.d = "slave"
    /\ pio.probe = Some(FloatingBus)
    /\ pio.pc = "idle"

\* The registers of one 48-bit command in the order they are to be
\* written: device-select, the high bytes, the low bytes, the command.
Lba48Order ==
    <<ATA_REG_HDDEVSEL, ATA_REG_SECCOUNT1, ATA_REG_LBA3, ATA_REG_LBA4,
      ATA_REG_LBA5, ATA_REG_SECCOUNT0, ATA_REG_LBA0, ATA_REG_LBA1,
      ATA_REG_LBA2, ATA_REG_COMMAND>>

InLba48Order(w) ==
    /\ Len(w) = Len(Lba48Order)
    /\ \A k \in 1..Len(w) : w[k][1] = Lba48Order[k]

\* C17: every PIO read, PIO write and DMA chunk programs the task file in
\* the 48-bit order, after a status read with BSY clear: device-select, the
\* high sector-count byte and LBA3/4/5, the low sector-count byte and
\* LBA0/1/2, and the command byte last.
TaskFileOrder ==
    /\ [](/\ tf_writes /= <<>> => InLba48Order(tf_writes)
          /\ (pio.fn \in {"read", "write"} /\ pio.tf /= <<>>) =>
                /\ Len(pio.tf) >= Len(Lba48Order)
                /\ InLba48Order(SubSeq(pio.tf, 1, Len(Lba48Order)))
                /\ Len(pio.cmds) >= 1
                /\ pio.tf[Len(Lba48Order)][2] = pio.cmds[1].command
          /\ pio.pc = "rw_program" =>
                IsSome(pio.ready) /\ ~HasBit(Get(pio.ready), ATA_SR_BSY))
    /\ [][/\ (pio.tf = <<>> /\ pio'.tf /= <<>>) =>
                (pio.pc = "rw_program" /\ pio'.tf[1][1] = ATA_REG_HDDEVSEL)
          /\ tf_writes' /= tf_writes =>
                (drive = None /\ InLba48Order(tf_writes'))]_vars

\* C17 witness: write() on the slave has programmed the task file of a
\* command whose LBA has a non-zero fourth byte and is polling for its
\* first sector.
PioWriteProgrammed ==
    /\ pio.fn = "write"
    /\ pio.d = "slave"
    /\ pio.lba > 16777216
    /\ Len(pio.tf) = Len(Lba48Order)
    /\ pio.pc = "poll_spin"

\* The interrupt handler writes the command of a chunk.
IsrIssues == pc["isr"] = "ndr_issue" /\ pc'["isr"] = "idle"

\* C18 as stated: when on_poll() advances to a remaining chunk, a write of
\* the bus-master command register with ACT set follows its status clear
\* (ACT is re-asserted for the chunk).
AdvanceRearmsAct == [][IsrIssues => rearmed']_vars

\* C18: when on_poll() observes INT with ACT set and a chunk of the current
\* Request remains, it advances to that chunk by programming the task file
\* with the chunk's LBA, sector count and DMA command; it does not write
\* the bus-master command register, in which ACT stays set from the arming
\* of the Request.
AdvanceKeepsAct ==
    /\ []((pc["isr"] \in {"ndr_pop", "ndr_issue"} /\ ~rearmed)
            => HasBit(bm_cmd, CMD_ACT))
    /\ [][(IsrIssues /\ ~rearmed) =>
            LET chunk == Get(dma_request[self["isr"]])
            IN  /\ bm_cmd' = bm_cmd
                /\ HasBit(bm_cmd', CMD_ACT)
                /\ ~rearmed'
                /\ prdt_reg' = prdt_reg
                /\ InLba48Order(tf_writes')
                /\ tf_writes'[2][2] * U8 + tf_writes'[6][2] = chunk.sectors
                /\ tf_writes'[7][2] + U8 * tf_writes'[8][2] = chunk.lba
                /\ tf_writes'[10][2] = (IF chunk.read THEN ATA_CMD_READ_DMA_EXT
                                        ELSE ATA_CMD_WRITE_DMA_EXT)
                /\ IsSome(drive')
                /\ Get(drive').command = tf_writes'[10][2]
                /\ Get(drive').armed = bm_cmd]_vars

\* C18 witness: the interrupt handler has issued the second chunk of a
\* write Request without a write of ACT since it cleared the status.
IsrIssuedNextChunk ==
    /\ pc["isr"] = "idle"
    /\ IsSome(drive)
    /\ Get(drive).command = ATA_CMD_WRITE_DMA_EXT
    /\ issued[Get(drive).rid] = 2
    /\ ~rearmed
    /\ HasBit(bm_cmd, CMD_ACT)

\* The chunks of a Request of the given length.
ChunksOf(length) == (Sectors(length) + (ChunkSectors - 1)) \div ChunkSectors

\* A step that ends the current Request of Disk d: every chunk was issued,
\* none is queued or in flight, the INT of the last one was observed, and
\* it is the interrupt handler, having seen INT with ACT set, that goes on.
LastChunkObserved(d) ==
    /\ IsSome(request[d])
    /\ issued[Get(request[d]).id] = ChunksOf(Get(request[d]).extent.length)
    /\ issued[Get(request[d]).id] >= 1
    /\ dma_requests[d] = <<>>
    /\ drive = None
    /\ pending = <<>>
    /\ ~HasBit(bm_sts, STS_INT)
    /\ HasBit(bm_cmd, CMD_ACT)
    /\ pc["isr"] = "nr_pop"

PollFrame ==
    [][polled'.tick /= polled.tick =>
         /\ ~HasBit(bm_sts, STS_INT) =>
               UNCHANGED <<request, requests, dma_request, dma_requests,
                           prdt_alloc, prdt_mem, complete, bm_cmd, bm_sts,
                           prdt_reg, tf_writes, drive, pc, self, owner,
                           started, issued, built, pending, failed, rearmed,
                           pio>>
         /\ (HasBit(bm_sts, STS_INT) /\ ~HasBit(bm_cmd, CMD_ACT)) =>
               /\ bm_sts' = 0
               /\ UNCHANGED <<request, requests, dma_request, dma_requests,
                              prdt_alloc, prdt_mem, complete, bm_cmd,
                              prdt_reg, tf_writes, drive, pc, self, owner,
                              started, issued, built, failed, pio>>]_vars

\* C20 witness: the latest on_poll() call found INT set and ACT clear, and
\* the interrupt handler is idle again.
PolledWithoutAct ==
    /\ polled.int
    /\ ~polled.act
    /\ pc["isr"] = "idle"

\* C21: next_request() disarms before it completes and pops: in the state
\* in which a completion flag has just been set ACT is clear and the PRDT
\* address is 0, and whenever no Request is current after a next_request()
\* call (some Request was started) ACT is clear and the PRDT address is 0.
DisarmedOnComplete ==
    /\ []((request["master"] = None /\ \E id \in Ids : started[id] > 0) =>
            /\ ~HasBit(bm_cmd, CMD_ACT)
            /\ prdt_reg = 0)
    /\ [][\A id \in Ids :
            (~complete[id] /\ complete'[id]) =>
                /\ ~HasBit(bm_cmd', CMD_ACT)
                /\ prdt_reg' = 0]_vars

\* C21 witness: the only Request submitted is complete and none is
\* current: the last next_request() found the queue empty.
AllDoneDisarmed ==
    /\ Len(complete) = 1
    /\ complete[1]
    /\ request["master"] = None
    /\ pc = [c \in Ctx |-> "idle"]

\* C22: PRD entries are stored only while ACT is clear, and for as long as
\* ACT is set the PRDT-address register holds the base of an allocated
\* table, which is not written.
PrdtWrittenDisarmed ==
    /\ [](HasBit(bm_cmd, CMD_ACT) =>
            \E d \in Disks : /\ prdt_alloc[d]
                              /\ prdt_reg = PrdtPtr(d)
                              /\ built[d] >= 1
                              /\ Len(prdt_mem[d]) >= built[d])
    /\ [][/\ (\E c \in Ctx : pc[c] = "nr_build" /\ pc'[c] /= "nr_build")
                => ~HasBit(bm_cmd, CMD_ACT)
          /\ (prdt_mem' /= prdt_mem \/ built' /= built)
                => /\ ~HasBit(bm_cmd, CMD_ACT)
                   /\ \E c \in Ctx : pc[c] = "nr_build"
          /\ (HasBit(bm_cmd, CMD_ACT) /\ HasBit(bm_cmd', CMD_ACT))
                => (prdt_reg' = prdt_reg /\ prdt_mem' = prdt_mem)]_vars

\* C22 witness: the table of a second Request, longer than the first, was
\* stored after the first was completed, and ACT is set for it.
SecondTableStored ==
    /\ Len(complete) = 2
    /\ complete[1]
    /\ Current("master", 2)
    /\ Len(prdt_mem["master"]) = 2
    /\ built["master"] = 2
    /\ HasBit(bm_cmd, CMD_ACT)

\* C23: whenever ACT is set, DIR is set iff the current Request is a read;
\* the command of every chunk is READ_DMA_EXT iff the current Request is a
\* read and WRITE_DMA_EXT otherwise; the write that sets ACT is ACT with
\* DIR for a read and ACT alone for a write.
DirectionConsistent ==
    /\ [](HasBit(bm_cmd, CMD_ACT) =>
            /\ IsSome(request["master"])
            /\ HasBit(bm_cmd, CMD_DIR) <=> Get(request["master"]).read)
    /\ [](IsSome(drive) =>
            /\ Current("master", Get(drive).rid)
            /\ Get(drive).command =
                  (IF Get(request["master"]).read THEN ATA_CMD_READ_DMA_EXT
                   ELSE ATA_CMD_WRITE_DMA_EXT)
            /\ tf_writes[Len(tf_writes)] = <<ATA_REG_COMMAND, Get(drive).command>>
            /\ Get(drive).armed =
                  (IF Get(request["master"]).read THEN CMD_ACT + CMD_DIR
                   ELSE CMD_ACT))
    /\ [][(~HasBit(bm_cmd, CMD_ACT) /\ HasBit(bm_cmd', CMD_ACT)) =>
            /\ IsSome(request'["master"])
            /\ bm_cmd' = (IF Get(request'["master"]).read
                          THEN CMD_ACT + CMD_DIR ELSE CMD_ACT)]_vars

\* C23 witness: the second chunk of a write Request is in flight under ACT
\* without DIR.
WriteChunkArmed ==
    /\ IsSome(drive)
    /\ Get(drive).command = ATA_CMD_WRITE_DMA_EXT
    /\ issued[Get(drive).rid] = 2
    /\ bm_cmd = CMD_ACT

\* The CACHE_FLUSH_EXT commands among the commands of the call.
Flushes ==
    Cardinality({k \in 1..Len(pio.cmds) :
                    pio.cmds[k].command = ATA_CMD_CACHE_FLUSH_EXT})

\* C24: in read() and write() with a buffer every sector's 256 words are
\* moved right after an error-checking poll that returned 0; a poll that
\* returns non-zero at sector k ends the call with that code, 256 * k words
\* moved and nothing issued after it; 0 is returned only after all count
\* sectors; write() follows every sector with CACHE_FLUSH_EXT and a poll
\* without the error check.
PioSectorLoop ==
    /\ []((RwReturned /\ pio.buf /= 0) =>
            /\ Len(pio.cmds) >= 1
            /\ pio.words = SectorWords * pio.sector
            /\ Flushes = (IF pio.fn = "write" THEN pio.sector ELSE 0)
            /\ Len(pio.cmds) = 1 + Flushes
            /\ IF Get(pio.ret) = 0 THEN pio.sector = pio.count
               ELSE pio.sector < pio.count /\ Get(pio.ret) \in {1, 2, 3})
    /\ [][/\ (pio.fn \in {"read", "write"} /\ pio'.words /= pio.words
                /\ pio'.words /= 0) =>
                /\ pio.pc = "poll_ret" /\ pio.check /\ pio.err = 0
                /\ IsSome(pio.state) /\ Classify(Get(pio.state)) = 0
                /\ pio'.words = pio.words + SectorWords
                /\ pio.words = SectorWords * pio.sector
          /\ (pio.pc = "poll_ret" /\ pio.check /\ pio.err /= 0
                /\ pio.fn \in {"read", "write"} /\ pio' /= pio) =>
                /\ pio'.pc = "idle"
                /\ pio'.ret = Some(pio.err)
                /\ pio'.words = pio.words
                /\ pio'.cmds = pio.cmds
                /\ pio'.tf = pio.tf
          /\ (pio.fn = "write" /\ pio'.fn = "write"
                /\ pio'.sector = pio.sector + 1) =>
                /\ pio.pc = "poll_ret" /\ ~pio.check
                /\ pio.cmds[Len(pio.cmds)].command = ATA_CMD_CACHE_FLUSH_EXT
                /\ pio.words = SectorWords * (pio.sector + 1)
          /\ (pio.fn = "read" /\ pio'.fn = "read"
                /\ pio'.sector = pio.sector + 1) =>
                pio'.words = SectorWords * (pio.sector + 1)]_vars

\* C24 witness: write() of two sectors has returned 3 for its second
\* sector, after the words and the flush of the first.
WriteFailedAtSecondSector ==
    /\ RwReturned
    /\ pio.fn = "write"
    /\ pio.count = 2
    /\ pio.sector = 1
    /\ pio.ret = Some(3)
    /\ pio.words = SectorWords

\* The reads of the normal status register (command base + 7) among the
\* reads of the ide_poll call in progress.
StatusReads ==
    {k \in 1..Len(pio.reads) : IdePort(pio.reads[k]) = <<"base", 7>>}

\* C25: ide_poll() waits for BSY on the alternate status port (control
\* base + 2) only; it reads the normal status register at most once, as
\* its last read, after BSY has cleared and only with check_error.
PollSpinsOnAltStatus ==
    /\ \A k \in 1..Len(pio.reads) :
          k \notin StatusReads => IdePort(pio.reads[k]) = <<"ctrl", 2>>
    /\ Cardinality(StatusReads) <= 1
    /\ StatusReads /= {} =>
          /\ StatusReads = {Len(pio.reads)}
          /\ pio.check
          /\ pio.pc = "poll_ret"

\* C26: the chunk queue holds only chunks of a started Request: when
\* next_request() has finished without arming, dma_requests is empty and
\* dma_request is none; a current chunk exists only while a current Request
\* of the same direction exists.
ChunksOnlyOfStarted ==
    /\ (pc["thr"] = "idle" /\ ~ArmedFor("master")) =>
          /\ dma_requests["master"] = <<>>
          /\ dma_request["master"] = None
    /\ \A d \in Disks :
          IsSome(dma_request[d]) =>
            /\ IsSome(request[d])
            /\ Get(dma_request[d]).read = Get(request[d]).read

(***************************************************************************)
(* The four Intex locks of a Disk (lines 183-186) and the lock() calls and *)
(* guard drops of each step of the dispatcher, in program order.           *)
(***************************************************************************)
Locks == {"request", "requests", "dma_request", "dma_requests"}

Lock(l) == <<"lock", l>>
Drop(l) == <<"drop", l>>

\* next_request, lines 555 and 571: one dma_requests.lock().push_back(..)
\* per chunk, the guard a temporary of the statement.
RECURSIVE Pushes(_)
Pushes(n) ==
    IF n = 0 THEN <<>>
    ELSE <<Lock("dma_requests"), Drop("dma_requests")>> \o Pushes(n - 1)

\* The lock events of the step that takes context c from position p to
\* position q and pushes n chunks, for the steps past request()'s test.
\*   request(), line 497: requests, a temporary of the statement;
\*     on_poll() takes no lock itself;
\*   next_request(), lines 517-531: requests, then request, dropped in
\*     reverse order at the end of the block;
\*   next_request(), lines 534-606: request held for the if let block, the
\*     pushes inside it; next_dma_request() is called after the block;
\*   next_dma_request(), lines 614-619: dma_requests, then dma_request;
\*     line 621: dma_request again, held for the if let block, which ends
\*     before next_request() is called at line 652;
\*   next_dma_request(), line 648: the return drops the guard of line 621.
BlockLockSteps(c, p, q, n) ==
    IF p = "idle"
    THEN IF c = "thr" /\ q = "req_check"
         THEN <<Lock("requests"), Drop("requests")>>
         ELSE <<>>
    ELSE IF p = "nr_pop"
    THEN <<Lock("requests"), Lock("request"), Drop("request"), Drop("requests")>>
    ELSE IF p = "nr_build"
    THEN <<Lock("request")>> \o Pushes(n) \o <<Drop("request")>>
    ELSE IF p = "ndr_pop"
    THEN <<Lock("dma_requests"), Lock("dma_request"),
           Drop("dma_request"), Drop("dma_requests"), Lock("dma_request")>>
           \o (IF q = "ndr_issue" THEN <<>> ELSE <<Drop("dma_request")>>)
    ELSE <<Drop("dma_request")>>

\* A request() that keeps the guard of its is_none() test for the call of
\* next_request().
LockStepsGuardKept(c, p, q, n) ==
    IF p = "req_check"
    THEN IF q = "nr_pop" THEN <<Lock("request")>>
         ELSE <<Lock("request"), Drop("request")>>
    ELSE BlockLockSteps(c, p, q, n)

\* The lock events of every step.  request(), line 499: request, a
\* temporary of the if condition, dropped before next_request() is called.
LockSteps(c, p, q, n) ==
    IF p = "req_check"
    THEN <<Lock("request"), Drop("request")>>
    ELSE BlockLockSteps(c, p, q, n)

\* The guards a context holds between two steps: at ndr_issue it is inside
\* the if let block of lines 621-649, waiting for BSY to clear.
HeldAt(p) == IF p = "ndr_issue" THEN {"dma_request"} ELSE {}

\* The locks held after the events evs, starting with held.
RECURSIVE HeldAfter(_, _)
HeldAfter(held, evs) ==
    IF evs = <<>> THEN held
    ELSE HeldAfter(IF Head(evs)[1] = "lock" THEN held \cup {Head(evs)[2]}
                   ELSE held \ {Head(evs)[2]},
                   Tail(evs))

\* Some lock() of evs is of a lock that is held at that moment, by the
\* context itself (in held) or by the other one (in others).
RECURSIVE Relocks(_, _, _)
Relocks(held, others, evs) ==
    /\ evs /= <<>>
    /\ \/ Head(evs)[1] = "lock" /\ Head(evs)[2] \in held \cup others
       \/ Relocks(HeldAfter(held, <<Head(evs)>>), others, Tail(evs))

\* The pairs <<a, b>> of evs where b is locked while a is held.
RECURSIVE Nested(_, _)
Nested(held, evs) ==
    IF evs = <<>> THEN {}
    ELSE (IF Head(evs)[1] = "lock" THEN {<<a, Head(evs)[2]>> : a \in held}
          ELSE {})
            \cup Nested(HeldAfter(held, <<Head(evs)>>), Tail(evs))

\* An order of the locks: requests, request, dma_requests, dma_request.
LockRank(l) ==
    IF l = "requests" THEN 1
    ELSE IF l = "request" THEN 2
    ELSE IF l = "dma_requests" THEN 3
    ELSE 4

\* The step of context c, if this is one: its lock events do not lock a
\* held lock, they leave held what the next position holds, and every
\* nested lock() goes up in LockRank.
LockStepOk(c) ==
    LET o == CHOOSE x \in Ctx : x /= c
        d == self'[c]
        n == IF pc[c] = "nr_build"
             THEN Len(dma_requests'[d]) - Len(dma_requests[d])
             ELSE 0
        evs == LockSteps(c, pc[c], pc'[c], n)
    IN  pc'[c] /= pc[c] =>
          /\ ~Relocks(HeldAt(pc[c]), HeldAt(pc[o]), evs)
          /\ HeldAfter(HeldAt(pc[c]), evs) = HeldAt(pc'[c])
          /\ \A pr \in Nested(HeldAt(pc[c]), evs) :
                LockRank(pr[1]) < LockRank(pr[2])

\* C27: request(), next_request(), next_dma_request() and on_poll() never
\* lock one of the four Intex locks while it is held, the recursion
\* next_dma_request -> next_request -> next_dma_request included; nested
\* locks are taken in one order; and as the drive finishes its commands
\* every call of request() and of on_poll() returns.
NoSelfDeadlock ==
    /\ [][\A c \in Ctx : LockStepOk(c)]_vars
    /\ \A c \in Ctx : (pc[c] /= "idle") ~> (pc[c] = "idle")

\* C27 witness: on_poll() went from next_dma_request() through
\* next_request() back into next_dma_request(): the first Request is
\* complete and the interrupt handler holds the guard of the first chunk
\* of the second.
IsrRecursed ==
    /\ pc["isr"] = "ndr_issue"
    /\ Len(complete) >= 2
    /\ complete[1]
    /\ IsSome(request["master"])
    /\ Get(request["master"]).id = 2
    /\ issued[2] = 0

====
